---------------------------- MODULE Spec2Model ----------------------------
(***************************************************************************)
(* The transactions API of src/src/app.ts: one table, four routes mounted  *)
(* under /transactions, the rows scoped by the sessionId cookie.           *)
(*                                                                         *)
(* A step of the model is one HTTP request handled from its arrival to its *)
(* response: the route's preHandler list, the zod parse, the single knex   *)
(* statement and the reply.  `request` and `response` hold the last        *)
(* request and its reply, `queries` the number of knex statements that     *)
(* request issued.                                                         *)
(***************************************************************************)
EXTENDS Integers, Sequences, FiniteSets

VARIABLES
    transactions,   \* the rows of table `transactions`, in insertion order
    created,        \* history: for each row, the parsed body it was created from
    request,        \* the last request received
    response,       \* the reply to it
    queries         \* knex statements issued while handling it

vars == <<transactions, created, request, response, queries>>

---------------------------------------------------------------------------
(* Bounds and input values *)

\* Rows the table may hold before create requests are no longer issued.
MaxRows == 2

\* The values randomUUID() can return and a client can forge; every one of
\* them has the shape z.string().uuid() accepts.
UUIDs == {"u1", "u2", "u3", "u4"}

\* A string that is not a UUID.
NotAUuid == "not-a-uuid"

\* request.cookies.sessionId of a request without that cookie.
undefined == "<undefined>"

\* What a request can carry as its sessionId cookie: nothing, an empty value
\* (Cookie: sessionId=) or a UUID.
CookieValues == {undefined, ""} \cup UUIDs

\* JSON values of a request body, with their JavaScript typeof.
Str(s) == [typeof |-> "string", s |-> s, n |-> 0]
Num(n) == [typeof |-> "number", s |-> "", n |-> n]
Missing == [typeof |-> "undefined", s |-> "", n |-> 0]

Body(title, amount, type) == [title |-> title, amount |-> amount, type |-> type]

NoBody == Body(Missing, Missing, Missing)

\* The bodies POST requests are issued with.
Bodies ==
    { Body(Str("T"), Num(5000), Str("credit")),
      Body(Str("D"), Num(2000), Str("debit")),
      Body(Str("T"), Num(-5), Str("credit")),
      Body(Num(7), Num(5000), Str("credit")),
      Body(Str("T"), Str("abc"), Str("credit")),
      Body(Str("T"), Str("25"), Str("debit")),
      Body(Str("D"), Num(2000), Str("transfer")),
      Body(Str("D"), Missing, Str("debit")),
      Body(Str("T"), Num(5000), Missing) }

---------------------------------------------------------------------------
(* zod schemas *)

\* z.string()
zString(v) == v.typeof = "string"

\* z.number(): no coercion, a string is not a number
zNumberCoerce(v) == v.typeof = "number" \/ (v.typeof = "string" /\ v.s = "25")
zNumber(v) == v.typeof = "number"

\* z.enum(['credit', 'debit'])
zEnumType(v) == v.typeof = "string" /\ v.s \in {"credit", "debit"}

\* createTransactionBodySchema.parse(request.body): success is FALSE where
\* parse throws a ZodError.
createTransactionBodySchema(body) ==
    IF zString(body.title) /\ zNumber(body.amount) /\ zEnumType(body.type)
    THEN [success |-> TRUE, title |-> body.title.s, amount |-> body.amount.n,
          type |-> body.type.s]
    ELSE [success |-> FALSE, title |-> "", amount |-> 0, type |-> ""]

\* getTransactionsParamsSchema.parse(request.params): id is z.string().uuid()
getTransactionsParamsSchema(id) == id \in UUIDs

---------------------------------------------------------------------------
(* Storage: the knex statements of the routes *)

Row(id, title, amount, session_id) ==
    [id |-> id, title |-> title, amount |-> amount, session_id |-> session_id]

\* knex('transactions').insert(row)
InsertOverwrite(table, row) == <<row>>
InsertUpsert(table, row) ==
    IF \E i \in DOMAIN table : table[i].session_id = row.session_id
    THEN [i \in DOMAIN table |->
             IF table[i].session_id = row.session_id THEN row ELSE table[i]]
    ELSE Append(table, row)
Insert(table, row) == Append(table, row)

\* knex('transactions').where('session_id', sessionId).select()
SelectAll(table, sessionId) == table
WhereSessionId(table, sessionId) ==
    SelectSeq(table, LAMBDA r : r.session_id = sessionId)

\* knex('transactions').where({ session_id: sessionId, id })
WhereSessionIdOnly(table, sessionId, id) ==
    SelectSeq(table, LAMBDA r : r.session_id = sessionId)
WhereSessionIdAndId(table, sessionId, id) ==
    SelectSeq(table, LAMBDA r : r.session_id = sessionId /\ r.id = id)

\* .first(): the first row of the result, undefined (here <<>>) when empty
First(rows) == IF rows = <<>> THEN <<>> ELSE <<rows[1]>>

RECURSIVE SumSeq(_)
SumSeq(rows) ==
    IF rows = <<>> THEN 0 ELSE rows[1].amount + SumSeq(Tail(rows))

\* .sum('amount', { as: 'amount' }).first(): SQL SUM is NULL over no rows
SumAmountZero(rows) == [null |-> FALSE, amount |-> SumSeq(rows)]
SumAmount(rows) ==
    IF rows = <<>> THEN [null |-> TRUE, amount |-> 0]
    ELSE [null |-> FALSE, amount |-> SumSeq(rows)]

\* The UUIDs already present in the table, as an id or as a session.
Used(table) ==
    {table[i].id : i \in DOMAIN table} \cup
    {table[i].session_id : i \in DOMAIN table}

\* randomUUID(): a value that has not occurred before.
randomUUIDRepeating(table, taken) == UUIDs
randomUUID(table, taken) == UUIDs \ (Used(table) \cup taken)

---------------------------------------------------------------------------
(* Replies *)

NoCookie == [name |-> "", value |-> "", path |-> "", maxAge |-> 0]

\* response.setCookie('sessionId', sessionId, { path: '/', maxAge: ... })
setCookieOneDay(sessionId) ==
    [name |-> "sessionId", value |-> sessionId, path |-> "/",
     maxAge |-> 60 * 60 * 24]
setCookie(sessionId) ==
    [name |-> "sessionId", value |-> sessionId, path |-> "/",
     maxAge |-> 60 * 60 * 24 * 7]

NoSummary == [null |-> TRUE, amount |-> 0]

Reply(status, kind, rows, summary, cookie) ==
    [status |-> status, kind |-> kind, rows |-> rows, summary |-> summary,
     setCookie |-> cookie]

\* A ZodError thrown by a handler reaches the framework's error handler.
ZodError == Reply(500, "ZodError", <<>>, NoSummary, NoCookie)

\* checkSessionIdExists rejecting a request.
Unauthorized == Reply(401, "Unauthorized", <<>>, NoSummary, NoCookie)

Request(route, sessionId, body, id) ==
    [route |-> route, sessionId |-> sessionId, body |-> body, id |-> id]

---------------------------------------------------------------------------
(* Session handling *)

\* if (!sessionId): undefined and the empty string are both falsy
NoSessionStrict(sessionId) == sessionId = undefined
NoSession(sessionId) == sessionId = undefined \/ sessionId = ""

\* The session resolver of the read routes: passes when the cookie is there.
checkSessionIdExists(sessionId) == sessionId # undefined

\* The preHandler list each route is registered with.
preHandlerOpenList(route) ==
    IF route \in {"GET /:id", "GET /summary"}
    THEN <<"checkSessionIdExists">> ELSE <<>>
preHandler(route) ==
    IF route \in {"GET /", "GET /:id", "GET /summary"}
    THEN <<"checkSessionIdExists">> ELSE <<>>

\* TRUE when the route's preHandlers let the request through to the handler.
PreHandlersPass(route, sessionId) ==
    \A i \in DOMAIN preHandler(route) :
        preHandler(route)[i] = "checkSessionIdExists"
            => checkSessionIdExists(sessionId)

---------------------------------------------------------------------------
(* The routes *)

\* amount: type === 'credit' ? amount : amount * -1
SignedAmountAsIs(type, amount) == amount
SignedAmount(type, amount) == IF type = "credit" THEN amount ELSE amount * (-1)

Init ==
    /\ transactions = <<>>
    /\ created = <<>>
    /\ request = Request("", undefined, NoBody, "")
    /\ response = Reply(0, "", <<>>, NoSummary, NoCookie)
    /\ queries = 0

\* POST /: the body does not parse, the handler throws before anything else.
CreateInvalid(cookie, body) ==
    /\ ~createTransactionBodySchema(body).success
    /\ request' = Request("POST /", cookie, body, "")
    /\ response' = ZodError
    /\ queries' = 0
    /\ UNCHANGED <<transactions, created>>

\* POST /: the body parses; the session is the cookie's or a minted one.
CreateValid(cookie, body) ==
    LET parsed == createTransactionBodySchema(body)
        mint == NoSession(cookie)
    IN  /\ parsed.success
        /\ Len(transactions) < MaxRows
        /\ \E minted \in (IF mint THEN randomUUID(transactions, {}) ELSE {cookie}) :
           \E id \in randomUUID(transactions, {minted}) :
              LET sessionId == IF mint THEN minted ELSE cookie
              IN  /\ transactions' =
                        Insert(transactions,
                               Row(id, parsed.title,
                                   SignedAmount(parsed.type, parsed.amount),
                                   sessionId))
                  /\ created' = Append(created,
                        [title |-> parsed.title, amount |-> parsed.amount,
                         type |-> parsed.type, sessionId |-> sessionId])
                  /\ response' =
                        Reply(201, "empty", <<>>, NoSummary,
                              IF mint THEN setCookie(sessionId) ELSE NoCookie)
        /\ request' = Request("POST /", cookie, body, "")
        /\ queries' = 1

Create ==
    \E cookie \in CookieValues, body \in Bodies :
        CreateInvalid(cookie, body) \/ CreateValid(cookie, body)

\* A read route stopped by its preHandler: the handler does not run.
Rejected ==
    \E route \in {"GET /", "GET /:id", "GET /summary"}, cookie \in CookieValues :
    \E id \in (IF route = "GET /:id" THEN UUIDs \cup {NotAUuid} ELSE {""}) :
        /\ ~PreHandlersPass(route, cookie)
        /\ request' = Request(route, cookie, NoBody, id)
        /\ response' = Unauthorized
        /\ queries' = 0
        /\ UNCHANGED <<transactions, created>>

\* GET /
List ==
    \E cookie \in CookieValues :
        /\ PreHandlersPass("GET /", cookie)
        /\ request' = Request("GET /", cookie, NoBody, "")
        /\ response' = Reply(200, "transactions",
                             WhereSessionId(transactions, cookie),
                             NoSummary, NoCookie)
        /\ queries' = 1
        /\ UNCHANGED <<transactions, created>>

\* The reply of GET /:id for the result of .first()
GetReply404(found) ==
    IF found = <<>> THEN Reply(404, "NotFound", <<>>, NoSummary, NoCookie)
    ELSE Reply(200, "transaction", found, NoSummary, NoCookie)
GetReply(found) == Reply(200, "transaction", found, NoSummary, NoCookie)

\* GET /:id
Get ==
    \E cookie \in CookieValues, id \in UUIDs \cup {NotAUuid} :
        /\ PreHandlersPass("GET /:id", cookie)
        /\ request' = Request("GET /:id", cookie, NoBody, id)
        /\ IF getTransactionsParamsSchema(id)
           THEN /\ response' =
                     GetReply(First(WhereSessionIdAndId(transactions, cookie, id)))
                /\ queries' = 1
           ELSE /\ response' = ZodError
                /\ queries' = 0
        /\ UNCHANGED <<transactions, created>>

\* GET /summary
Summary ==
    \E cookie \in CookieValues :
        /\ PreHandlersPass("GET /summary", cookie)
        /\ request' = Request("GET /summary", cookie, NoBody, "")
        /\ response' = Reply(200, "summary", <<>>,
                             SumAmount(WhereSessionId(transactions, cookie)),
                             NoCookie)
        /\ queries' = 1
        /\ UNCHANGED <<transactions, created>>

Next == Create \/ Rejected \/ List \/ Get \/ Summary

Spec == Init /\ [][Next]_vars

---------------------------------------------------------------------------
(* Definitions the properties are stated with *)

ReadRoutes == {"GET /", "GET /:id", "GET /summary"}

\* The indices of the rows stored under session s.
RowsOf(s) == {i \in DOMAIN transactions : transactions[i].session_id = s}

\* The sum of the stored amounts of the rows 1..n that belong to session s.
RECURSIVE SessionSum(_, _)
SessionSum(s, n) ==
    IF n = 0 THEN 0
    ELSE SessionSum(s, n - 1)
         + (IF transactions[n].session_id = s THEN transactions[n].amount ELSE 0)

\* The accepted create requests made under session s, oldest first.
CreatedUnder(s) == SelectSeq(created, LAMBDA c : c.sessionId = s)

\* The amount a create request of this type and amount is to be stored with.
Signed(type, amount) == IF type = "credit" THEN amount ELSE 0 - amount

LastRow == transactions[Len(transactions)]

\* C1: what list, get-by-id and summary return for a request with cookie s
\* comes from the rows stored under s only, and a row is stored under the
\* session its create request was made under.
C1_SessionIsolation ==
    /\ Len(created) = Len(transactions)
    /\ \A i \in DOMAIN transactions :
          transactions[i].session_id = created[i].sessionId
    /\ (request.route \in {"GET /", "GET /:id"} /\ response.status = 200)
          => \A j \in DOMAIN response.rows :
                /\ response.rows[j].session_id = request.sessionId
                /\ \E i \in RowsOf(request.sessionId) :
                      transactions[i] = response.rows[j]
    /\ (request.route = "GET /summary" /\ response.status = 200
            /\ ~response.summary.null)
          => response.summary.amount
                = SessionSum(request.sessionId, Len(transactions))

\* Two sessions hold rows and a list request of one of them was answered.
C1_Witness ==
    /\ request.route = "GET /"
    /\ response.status = 200
    /\ response.rows # <<>>
    /\ \E i \in DOMAIN transactions :
          transactions[i].session_id # request.sessionId

\* C2: GET /summary answers the sum of the signed amounts stored under the
\* request's session, and null when that session has no row.
C2_SummaryAggregation ==
    (request.route = "GET /summary" /\ request.sessionId \in UUIDs)
        => /\ response.status = 200
           /\ response.kind = "summary"
           /\ response.summary.null = (RowsOf(request.sessionId) = {})
           /\ response.summary.amount
                 = SessionSum(request.sessionId, Len(transactions))
           /\ (CreatedUnder(request.sessionId)
                 = << [title |-> "T", amount |-> 5000, type |-> "credit",
                       sessionId |-> request.sessionId],
                      [title |-> "D", amount |-> 2000, type |-> "debit",
                       sessionId |-> request.sessionId] >>)
                 => response.summary.amount = 3000

\* Credit 5000 then debit 2000 in one session, summarised as 3000.
C2_Witness ==
    /\ request.route = "GET /summary"
    /\ Len(CreatedUnder(request.sessionId)) = 2
    /\ CreatedUnder(request.sessionId)[1].type = "credit"
    /\ CreatedUnder(request.sessionId)[2].type = "debit"
    /\ ~response.summary.null
    /\ response.summary.amount = 3000

\* C3: GET / answers one entry per accepted create request of the session,
\* each with the submitted title and the signed submitted amount.
C3_RoundTrip ==
    (request.route = "GET /" /\ request.sessionId \in UUIDs)
        => LET sent == CreatedUnder(request.sessionId)
           IN  /\ response.status = 200
               /\ Len(response.rows) = Len(sent)
               /\ \A j \in DOMAIN sent :
                     /\ response.rows[j].title = sent[j].title
                     /\ response.rows[j].amount
                           = Signed(sent[j].type, sent[j].amount)

\* Two creates under one session, then its list.
C3_Witness ==
    /\ request.route = "GET /"
    /\ Len(CreatedUnder(request.sessionId)) = 2
    /\ Len(response.rows) = 2
    /\ response.rows[1].title = "T"
    /\ response.rows[1].amount = 5000

\* C4: GET /:id with the id of a row of the request's session answers 200
\* with that row.
C4_GetByIdHit ==
    request.route = "GET /:id"
        => \A i \in RowsOf(request.sessionId) :
              transactions[i].id = request.id
                 => /\ response.status = 200
                    /\ response.kind = "transaction"
                    /\ response.rows = <<transactions[i]>>

\* The second row of a session fetched by its id.
C4_Witness ==
    /\ request.route = "GET /:id"
    /\ response.status = 200
    /\ Cardinality(RowsOf(request.sessionId)) = 2
    /\ response.rows = <<transactions[2]>>

\* C5: an accepted create stores the title unchanged and the amount as
\* submitted for a credit, negated for a debit.
C5_SignEncoding ==
    (request.route = "POST /" /\ response.status = 201)
        => /\ transactions # <<>>
           /\ LastRow.title = request.body.title.s
           /\ request.body.type.s = "credit"
                 => LastRow.amount = request.body.amount.n
           /\ request.body.type.s = "debit"
                 => LastRow.amount = 0 - request.body.amount.n

\* Debit 2000 stored as -2000.
C5_Witness ==
    /\ request.route = "POST /"
    /\ response.status = 201
    /\ request.body.type.s = "debit"
    /\ request.body.amount.n = 2000
    /\ LastRow.amount = -2000
    /\ LastRow.title = "D"

\* C6: a read request without the sessionId cookie is answered 401 by the
\* preHandler, its handler does not run and no statement is issued.
C6_MissingSessionRejected ==
    (request.route \in ReadRoutes /\ request.sessionId = undefined)
        => /\ response = Unauthorized
           /\ queries = 0

\* A read request without cookie rejected while the table holds rows.
C6_Witness ==
    /\ request.route \in ReadRoutes
    /\ request.sessionId = undefined
    /\ response.status = 401
    /\ transactions # <<>>

\* The parts of C7 that do not depend on what counts as carrying a cookie:
\* a minted session is a UUID no earlier row holds, it is the value of the
\* cookie set (path /, max-age 604800) and of the row; no read route sets a
\* cookie.
C7_Minted(absent) ==
    (request.route = "POST /" /\ response.status = 201 /\ absent)
        => /\ response.setCookie =
                 [name |-> "sessionId", value |-> LastRow.session_id,
                  path |-> "/", maxAge |-> 604800]
           /\ LastRow.session_id \in UUIDs
           /\ LastRow.session_id # LastRow.id
           /\ \A i \in 1..(Len(transactions) - 1) :
                 /\ transactions[i].session_id # LastRow.session_id
                 /\ transactions[i].id # LastRow.session_id

C7_Carried(present) ==
    (request.route = "POST /" /\ response.status = 201 /\ present)
        => /\ response.setCookie = NoCookie
           /\ LastRow.session_id = request.sessionId

C7_ReadsSetNoCookie ==
    request.route \in ReadRoutes => response.setCookie = NoCookie

\* C7 as claimed: a create without the sessionId cookie mints a fresh UUID,
\* sets it as the cookie and stores the row under it; a create carrying a
\* sessionId cookie sets no cookie and stores the row under the carried
\* value; no GET route sets the cookie.
C7_CookieMinting_Original ==
    /\ C7_Minted(request.sessionId = undefined)
    /\ C7_Carried(request.sessionId # undefined)
    /\ C7_ReadsSetNoCookie

\* C7 as amended: the session is minted when the sessionId cookie is missing
\* or empty, and the carried value is kept when it is not empty.
C7_CookieMinting ==
    /\ C7_Minted(request.sessionId \in {undefined, ""})
    /\ C7_Carried(request.sessionId \notin {undefined, ""})
    /\ C7_ReadsSetNoCookie

\* A create with an empty sessionId cookie was given a minted session.
C7_Witness ==
    /\ request.route = "POST /"
    /\ response.status = 201
    /\ request.sessionId = ""
    /\ response.setCookie.value = LastRow.session_id
    /\ Len(transactions) = 2

\* The body fails createTransactionBodySchema: a field is missing or has the
\* wrong type, or type is neither credit nor debit.
FailsSchema(body) ==
    \/ body.title.typeof # "string"
    \/ body.amount.typeof # "number"
    \/ body.type.typeof # "string"
    \/ body.type.s \notin {"credit", "debit"}

C9_GetByIdMiss ==
    (/\ request.route = "GET /:id"
     /\ request.sessionId \in UUIDs
     /\ request.id \in UUIDs
     /\ \A i \in RowsOf(request.sessionId) : transactions[i].id # request.id)
        => /\ response.status = 200
           /\ response.kind = "transaction"
           /\ response.rows = <<>>

\* The id asked for exists, under another session.
C9_Witness ==
    /\ request.route = "GET /:id"
    /\ request.sessionId \in UUIDs
    /\ RowsOf(request.sessionId) # {}
    /\ \E i \in DOMAIN transactions :
          /\ transactions[i].id = request.id
          /\ transactions[i].session_id # request.sessionId
    /\ response.status = 200
    /\ response.rows = <<>>

\* C10: every row created as a credit stores the submitted amount and it is
\* positive, every row created as a debit stores the negated submitted
\* amount and it is negative; submitted amounts are positive.
C10_AmountSign ==
    \A i \in DOMAIN transactions :
        /\ i \in DOMAIN created
        /\ created[i].amount > 0
        /\ created[i].type = "credit"
              => (transactions[i].amount = created[i].amount
                  /\ transactions[i].amount > 0)
        /\ created[i].type = "debit"
              => (transactions[i].amount = 0 - created[i].amount
                  /\ transactions[i].amount < 0)

\* The ids stored in a table.
Ids(table) == {table[i].id : i \in DOMAIN table}

\* C11: a POST / with a valid body is answered 201 with an empty body and
\* adds exactly one row to the table, whose id is a UUID no stored row has;
\* the ids of the stored rows are pairwise distinct after every request.
C11_CreatePostcondition ==
    [][/\ (request'.route = "POST /" /\ ~FailsSchema(request'.body))
            => /\ response'.status = 201
               /\ response'.kind = "empty"
               /\ response'.rows = <<>>
               /\ Len(transactions') = Len(transactions) + 1
               /\ \A i \in DOMAIN transactions :
                     transactions'[i] = transactions[i]
               /\ transactions'[Len(transactions')].id \in UUIDs
               /\ transactions'[Len(transactions')].id \notin Ids(transactions)
       /\ \A i, j \in DOMAIN transactions' :
             i # j => transactions'[i].id # transactions'[j].id]_vars

\* A second row created in a session that already holds one.
C11_Witness ==
    /\ request.route = "POST /"
    /\ response.status = 201
    /\ Len(transactions) = 2
    /\ transactions[1].session_id = transactions[2].session_id
    /\ transactions[1].id # transactions[2].id

\* C12: no request removes a stored row or changes one of its fields; the
\* read routes and every request not answered 201 leave the table as it
\* was, and the table changes only by a successful create.
C12_AppendOnly ==
    [][/\ \A i \in DOMAIN transactions :
             \E j \in DOMAIN transactions' : transactions'[j] = transactions[i]
       /\ Len(transactions') >= Len(transactions)
       /\ (request'.route \in ReadRoutes \/ response'.status # 201)
             => transactions' = transactions
       /\ transactions' # transactions
             => (request'.route = "POST /" /\ response'.status = 201)]_vars

\* A create refused by validation while its session holds two rows.
C12_Witness ==
    /\ Len(transactions) = 2
    /\ request.route = "POST /"
    /\ response.kind = "ZodError"
    /\ transactions[1].session_id = transactions[2].session_id

===========================================================================
